---- MODULE Spec2Model ----
(***************************************************************************)
(* Hazard-aware route planning (route_planner.py).                         *)
(*                                                                         *)
(* Spec       one RoutePlanner.plan_route call: load of the camera         *)
(*            dataset, RoutePlanner.get_route with its ordered failover    *)
(*            over osrm_servers and the straight-line fallback, then the   *)
(*            per-route analysis, ranking and recommendation.              *)
(* SpecScore  RoutePlanner.score_route_safety applied to match lists.      *)
(*                                                                         *)
(* Units.  Distances of a camera to a route are whole metres (the code's   *)
(* 'distance_km' is rounded to 3 decimals, i.e. to the metre); a route's   *)
(* geometry is represented by what the matcher reads off it: for every     *)
(* camera the minimum point-to-segment distance to the polyline.           *)
(***************************************************************************)
EXTENDS Integers, Sequences, FiniteSets, TLC

VARIABLES
    file_state,      \* results_file on disk: "missing", "corrupt" or "valid"
    file_cameras,    \* the dataset the file holds when it is valid
    pc,              \* position of plan_route: "start", "routing", "done", "raised"
    exception,       \* the exception that left plan_route, "none" if none
    cameras,         \* plan_route's local `cameras` (json.load result)
    server_idx,      \* position of get_route's for loop in osrm_servers
    attempts,        \* history: the requests issued, with what came back
    osrm_response,   \* what get_route returned to plan_route
    fallback_calls,  \* history: number of _create_simple_route invocations
    plan_result,     \* what plan_route returned
    matches_in,      \* SpecScore: the argument of score_route_safety
    safety_out,      \* SpecScore: the value score_route_safety returned
    match_cameras,   \* SpecMatch: the `cameras` argument of find_cameras_near_route
    match_geometry,  \* SpecMatch: the route, camera -> distance to each segment
    match_out,       \* SpecMatch: how find_cameras_near_route ended
    api_pc,          \* POST /api/route: "idle", "received", "origin_done",
                     \*   "planning", "responded"
    api_body,        \* the JSON body of the request
    api_origin,      \* the handler's `origin`: <<>> or <<coordinate>>
    api_destination, \* the handler's `destination`
    geocode_calls,   \* history: the geocoding requests issued
    api_response,    \* the HTTP response of the handler
    pub_pc,          \* the classification pipeline: "not_running", "working",
                     \*   "checkpoint", "final", "finished"
    pub_disk,        \* classification_results.json on disk
    pub_saves,       \* saves the pipeline has begun
    plan_loads,      \* history: what each plan_route load found on disk
    fb_origin,       \* _create_simple_route: origin (lon, lat)
    fb_destination,  \* _create_simple_route: destination (lon, lat)
    fb_coords,       \* _create_simple_route: the geometry's coordinates
    pd_point,        \* point_to_line_distance: point (lon, lat)
    pd_start,        \* point_to_line_distance: line_start
    pd_end,          \* point_to_line_distance: line_end
    pd_out,          \* point_to_line_distance: t and the squared distance
    an_nearby,       \* plan_route loop body: the cameras found near a route
    an_out,          \* plan_route loop body: the analyzed route's fields
    rs_pc,           \* process_cameras_parallel: "idle", "start", "pool", "done"
    rs_stored,       \* the results file when the run started
    rs_listed,       \* the cameras argument
    rs_results,      \* self.results
    rs_todo,         \* cameras submitted and not yet collected
    rs_processed,    \* history: how often each camera was processed
    rs_completed,    \* completed
    rs_file,         \* the results file now
    rs_writes,       \* history: how often the results file was written
    sl_result,       \* get_safety_level: classification_result
    sl_threshold,    \* get_safety_level: min_hazard_confidence
    sl_out           \* get_safety_level: the returned pair

planVars  == <<file_state, file_cameras, pc, exception, cameras, server_idx,
               attempts, osrm_response, fallback_calls, plan_result>>
scoreVars == <<matches_in, safety_out>>
matchVars == <<match_cameras, match_geometry, match_out>>
vars      == <<file_state, file_cameras, pc, exception, cameras, server_idx,
               attempts, osrm_response, fallback_calls, plan_result,
               matches_in, safety_out, match_cameras, match_geometry, match_out,
               api_pc, api_body, api_origin, api_destination, geocode_calls,
               api_response, pub_pc, pub_disk, pub_saves, plan_loads,
               fb_origin, fb_destination, fb_coords,
               pd_point, pd_start, pd_end, pd_out, an_nearby, an_out,
               rs_pc, rs_stored, rs_listed, rs_results, rs_todo, rs_processed,
               rs_completed, rs_file, rs_writes,
               sl_result, sl_threshold, sl_out>>
apiVars   == <<api_pc, api_body, api_origin, api_destination, geocode_calls,
               api_response>>

pubVars   == <<pub_pc, pub_disk, pub_saves, plan_loads>>
fbVars    == <<fb_origin, fb_destination, fb_coords>>
distVars  == <<pd_point, pd_start, pd_end, pd_out>>
analyzeVars == <<an_nearby, an_out>>
resumeVars == <<rs_pc, rs_stored, rs_listed, rs_results, rs_todo, rs_processed,
                rs_completed, rs_file, rs_writes>>
levelVars == <<sl_result, sl_threshold, sl_out>>

\* What the steps of one component leave alone.
outsidePlan     == <<scoreVars, matchVars, apiVars, pubVars, fbVars,
                     distVars, analyzeVars, resumeVars, levelVars>>
outsideScore    == <<planVars, matchVars, apiVars, pubVars, fbVars,
                     distVars, analyzeVars, resumeVars, levelVars>>
outsideMatch    == <<planVars, scoreVars, apiVars, pubVars, fbVars,
                     distVars, analyzeVars, resumeVars, levelVars>>
outsideApi      == <<scoreVars, matchVars, pubVars, fbVars, distVars,
                     analyzeVars, resumeVars, levelVars>>
outsidePublish  == <<planVars, scoreVars, matchVars, apiVars, fbVars,
                     distVars, analyzeVars, resumeVars, levelVars>>
outsideFallback == <<planVars, scoreVars, matchVars, apiVars, pubVars,
                     distVars, analyzeVars, resumeVars, levelVars>>
outsideDistance == <<planVars, scoreVars, matchVars, apiVars, pubVars,
                     fbVars, analyzeVars, resumeVars, levelVars>>
outsideAnalyze  == <<planVars, scoreVars, matchVars, apiVars, pubVars,
                     fbVars, distVars, resumeVars, levelVars>>
outsideResume   == <<planVars, scoreVars, matchVars, apiVars, pubVars,
                     fbVars, distVars, analyzeVars, levelVars>>
outsideLevel    == <<planVars, scoreVars, matchVars, apiVars, pubVars,
                     fbVars, distVars, analyzeVars, resumeVars>>

(***************************************************************************)
(* Bounds of the model.                                                    *)
(***************************************************************************)
NumCameras == 1
MaxRoutes == 2
MaxMatches == 7
MaxSegments == 2

(***************************************************************************)
(* Program constants.                                                      *)
(***************************************************************************)
NumServers == 2
route_buffer_m == 500
TopHazards == 5
Infinity == 999999999

Min(a, b) == IF a < b THEN a ELSE b
Max(a, b) == IF a > b THEN a ELSE b

\* Python's round(): n/d to the nearest integer, ties to even (n >= 0, d > 0).
Round(n, d) ==
    LET q == n \div d
        r == n % d
    IN  IF 2 * r < d THEN q
        ELSE IF 2 * r > d THEN q + 1
        ELSE IF q % 2 = 0 THEN q ELSE q + 1

(***************************************************************************)
(* Input domains.                                                          *)
(***************************************************************************)
CameraIds == 1..NumCameras

SafetyLevels == {"hazardous", "caution", "safe", "unknown"}

\* A record of classification_results.json, by what the matcher reads of it:
\*   status          the 'status' value, "absent" when the key is missing
\*   has_camera      the 'camera' metadata block is there
\*   has_lat/has_lon camera.latitude / camera.longitude is not None
\*   classification  "dict" (a classification block), "null" or "absent"
\*   safety_level    classification.safety_level when the block is there
Classified(level) ==
    [status |-> "success", has_camera |-> TRUE, has_lat |-> TRUE, has_lon |-> TRUE,
     classification |-> "dict", safety_level |-> level]

\* What process_single_camera writes when the download failed.
DownloadFailed ==
    [status |-> "download_failed", has_camera |-> TRUE, has_lat |-> TRUE,
     has_lon |-> TRUE, classification |-> "null", safety_level |-> "unknown"]

\* The records the pipeline writes: a classified camera with a location, a
\* classified camera without coordinates, a failed download.
CameraRecords ==
    {Classified(l) : l \in SafetyLevels}
    \cup {[Classified("hazardous") EXCEPT !.has_lat = FALSE, !.has_lon = FALSE],
          DownloadFailed}

Datasets == [CameraIds -> CameraRecords]

NoCameras == [c \in CameraIds |-> DownloadFailed]

\* A route geometry, as the matcher sees it: for every camera the distance
\* in metres to each segment of the polyline (point_to_line_distance).
Geometries == [CameraIds -> {<<100>>, <<900>>}]

\* Routes a backend may answer with (distance in metres, duration in seconds).
BackendRoutes ==
    {[distance |-> m.distance, duration |-> m.duration, geometry |-> g, legs |-> <<1>>] :
        m \in {[distance |-> 12344, duration |-> 1250],
               [distance |-> 9876, duration |-> 905]},
        g \in Geometries}

RouteLists == UNION {[1..n -> BackendRoutes] : n \in 0..MaxRoutes}

\* Great-circle distances origin-destination, in metres.
StraightLineMetres == {36250, 12500}

\* What one request to one endpoint can come back with.
RequestExceptionKinds == {"connection_error", "timeout", "http_error", "bad_json"}
FailureKinds == RequestExceptionKinds \cup {"not_ok"}

Outcomes ==
    {[kind |-> k, routes |-> <<>>] : k \in FailureKinds \cup {"non_object"}}
    \cup {[kind |-> "ok", routes |-> rs] : rs \in RouteLists}

NoResponse == [code |-> "none", routes |-> <<>>]
NoPlan == [error |-> "pending", routes |-> <<>>, recommended_route |-> <<>>]
NotScored == [score |-> -1, rating |-> "pending", hazard_count |-> 0,
              caution_count |-> 0, safe_count |-> 0, total_cameras |-> 0]

(***************************************************************************)
(* RoutePlanner.score_route_safety                                         *)
(***************************************************************************)
\* sum(1 for c in cameras if c['safety_level'] == level)
CountLevel(ms, level) ==
    LET count[n \in 0..Len(ms)] ==
            IF n = 0 THEN 0
            ELSE count[n - 1] + (IF ms[n].safety_level = level THEN 1 ELSE 0)
    IN  count[Len(ms)]

\* Faulty variant: the hazardous and caution penalties exchanged.
RawScoreSwapped(h, c, s) == 100 - (h * 10) - (c * 30) + (s * 5)

\* Faulty variant: a hazardous camera adds 30 instead of taking it away.
RawScoreHazardBonus(h, c, s) == 100 + (h * 30) - (c * 10) + (s * 5)

\* 100 - 30 per hazardous - 10 per caution + 5 per safe
RawScore(h, c, s) == 100 - (h * 30) - (c * 10) + (s * 5)

\* max(0, min(100, score))
ClampScore(score) == Max(0, Min(100, score))

\* Faulty variant: the caution share is tested before the hazard count.
RatingCautionFirst(h, c, s, total) ==
    IF 10 * c > 3 * total THEN "caution"
    ELSE IF h > 0 THEN "hazardous"
    ELSE IF s > 0 THEN "safe"
    ELSE "unknown"

\* The if/elif chain.  `caution_count > total * 0.3` is a float comparison;
\* 0.3 * total rounds to the exact 3*total/10 whenever that is an integer,
\* so it agrees with the exact 10*caution_count > 3*total.
Rating(h, c, s, total) ==
    IF h > 0 THEN "hazardous"
    ELSE IF 10 * c > 3 * total THEN "caution"
    ELSE IF s > 0 THEN "safe"
    ELSE "unknown"

\* Faulty variant: no data scores 0 instead of 100.
score_route_safety_pessimistic(ms) ==
    LET hazard_count  == CountLevel(ms, "hazardous")
        caution_count == CountLevel(ms, "caution")
        safe_count    == CountLevel(ms, "safe")
    IN  [score |-> IF ms = <<>> THEN 0
                   ELSE ClampScore(RawScore(hazard_count, caution_count, safe_count)),
         rating |-> Rating(hazard_count, caution_count, safe_count, Len(ms)),
         hazard_count |-> hazard_count,
         caution_count |-> caution_count,
         safe_count |-> safe_count,
         total_cameras |-> Len(ms)]

score_route_safety(ms) ==
    IF ms = <<>>
    THEN [score |-> 100, rating |-> "unknown", hazard_count |-> 0,
          caution_count |-> 0, safe_count |-> 0, total_cameras |-> 0]
    ELSE LET hazard_count  == CountLevel(ms, "hazardous")
             caution_count == CountLevel(ms, "caution")
             safe_count    == CountLevel(ms, "safe")
             total         == Len(ms)
         IN  [score |-> ClampScore(RawScore(hazard_count, caution_count, safe_count)),
              rating |-> Rating(hazard_count, caution_count, safe_count, total),
              hazard_count |-> hazard_count,
              caution_count |-> caution_count,
              safe_count |-> safe_count,
              total_cameras |-> total]

(***************************************************************************)
(* RoutePlanner.find_cameras_near_route                                    *)
(***************************************************************************)
\* list.sort(key=distance_km) is stable: x goes behind every element whose
\* key is less than or equal to its own.
InsertByDistance(sorted, x) ==
    LET k == Cardinality({i \in 1..Len(sorted) : sorted[i].distance_m <= x.distance_m})
    IN  SubSeq(sorted, 1, k) \o <<x>> \o SubSeq(sorted, k + 1, Len(sorted))

SortByDistance(ms) ==
    LET sorted[n \in 0..Len(ms)] ==
            IF n = 0 THEN <<>> ELSE InsertByDistance(sorted[n - 1], ms[n])
    IN  sorted[Len(ms)]

\* Faulty variant: the last segment's distance instead of the smallest.
LastDistance(distances) ==
    IF distances = <<>> THEN Infinity ELSE distances[Len(distances)]

\* min_distance = float('inf'); min_distance = min(min_distance, distance)
\* over the segments of the route.
MinDistance(distances) ==
    LET running[n \in 0..Len(distances)] ==
            IF n = 0 THEN Infinity ELSE Min(running[n - 1], distances[n])
    IN  running[Len(distances)]

\* Faulty variant: the status is not looked at.
IsNearbyAnyStatus(cam_data, min_distance) ==
    /\ cam_data.has_lat /\ cam_data.has_lon
    /\ min_distance <= route_buffer_m

\* Faulty variant: a camera exactly on the buffer is left out.
IsNearbyStrict(cam_data, min_distance) ==
    /\ cam_data.status = "success"
    /\ cam_data.has_lat /\ cam_data.has_lon
    /\ min_distance < route_buffer_m

\* The camera is kept: status 'success', both coordinates, within the buffer.
IsNearby(cam_data, min_distance) ==
    /\ cam_data.status = "success"
    /\ cam_data.has_lat /\ cam_data.has_lon
    /\ min_distance <= route_buffer_m

\* The exception one camera's iteration raises, "none" if none:
\* cam_data['camera'] without the key is a KeyError; for a camera that is
\* kept, cam_data.get('classification', {}) is None when the key holds null
\* and None.get is an AttributeError.
CameraRaises(cam_data, min_distance) ==
    IF cam_data.status # "success" THEN "none"
    ELSE IF ~cam_data.has_camera THEN "KeyError"
    ELSE IF IsNearby(cam_data, min_distance) /\ cam_data.classification = "null"
         THEN "AttributeError"
    ELSE "none"

\* cam_data.get('classification', {}).get('safety_level', 'unknown')
MatchedLevel(cam_data) ==
    IF cam_data.classification = "dict" THEN cam_data.safety_level ELSE "unknown"

\* The exception that leaves find_cameras_near_route: that of the first
\* camera, in the order of the dataset, whose iteration raises.
find_cameras_raises(geometry, cams) ==
    LET raised[k \in 0..NumCameras] ==
            IF k = 0 THEN "none"
            ELSE IF raised[k - 1] # "none" THEN raised[k - 1]
            ELSE CameraRaises(cams[k], MinDistance(geometry[k]))
    IN  raised[NumCameras]

\* The list find_cameras_near_route returns when nothing is raised.
find_cameras_near_route(geometry, cams) ==
    LET nearby[k \in 0..NumCameras] ==
            IF k = 0 THEN <<>>
            ELSE IF IsNearby(cams[k], MinDistance(geometry[k]))
                 THEN Append(nearby[k - 1],
                             [id |-> k, distance_m |-> MinDistance(geometry[k]),
                              safety_level |-> MatchedLevel(cams[k])])
                 ELSE nearby[k - 1]
    IN  SortByDistance(nearby[NumCameras])

(***************************************************************************)
(* RoutePlanner._create_simple_route                                       *)
(***************************************************************************)
\* One route: the great-circle distance, the duration at 90 km/h, one leg
\* without steps.
_create_simple_route(distance_m, geometry) ==
    [code |-> "Ok",
     routes |-> <<[distance |-> distance_m,
                   duration |-> (distance_m * 3600) \div (90 * 1000),
                   geometry |-> geometry,
                   legs |-> <<0>>]>>]

(***************************************************************************)
(* RoutePlanner.plan_route, from the return of get_route on                *)
(***************************************************************************)
\* Faulty variant: the last five hazardous cameras, [-5:].
HazardousCamerasLastFive(nearby) ==
    LET hz == SelectSeq(nearby, LAMBDA c : c.safety_level = "hazardous")
    IN  SubSeq(hz, Max(1, Len(hz) - TopHazards + 1), Len(hz))

\* Faulty variant: the list is not cut to five.
HazardousCamerasUncapped(nearby) ==
    SelectSeq(nearby, LAMBDA c : c.safety_level = "hazardous")

\* [c for c in nearby_cameras if c['safety_level'] == 'hazardous'][:5]
HazardousCameras(nearby) ==
    LET hz == SelectSeq(nearby, LAMBDA c : c.safety_level = "hazardous")
    IN  SubSeq(hz, 1, Min(TopHazards, Len(hz)))

\* One element of analyzed_routes; distance_km in hundredths of a km,
\* duration_min in tenths of a minute.
AnalyzeRoute(idx, route, cams) ==
    LET nearby_cameras == find_cameras_near_route(route.geometry, cams)
    IN  [route_index |-> idx,
         is_recommended |-> FALSE,
         distance_km |-> Round(route.distance, 10),
         duration_min |-> Round(route.duration, 6),
         safety |-> score_route_safety(nearby_cameras),
         cameras_monitored |-> Len(nearby_cameras),
         hazardous_locations |-> HazardousCameras(nearby_cameras),
         geometry |-> route.geometry,
         legs |-> route.legs]

\* Faulty variant: an unstable sort, x goes before the elements of equal score.
InsertByScoreUnstable(sorted, x) ==
    LET k == Cardinality({i \in 1..Len(sorted) : sorted[i].safety.score > x.safety.score})
    IN  SubSeq(sorted, 1, k) \o <<x>> \o SubSeq(sorted, k + 1, Len(sorted))

\* list.sort(key=score, reverse=True) is stable: x goes behind every element
\* whose score is greater than or equal to its own.
InsertByScore(sorted, x) ==
    LET k == Cardinality({i \in 1..Len(sorted) : sorted[i].safety.score >= x.safety.score})
    IN  SubSeq(sorted, 1, k) \o <<x>> \o SubSeq(sorted, k + 1, Len(sorted))

\* Faulty variant: the sort is left out.
KeepBackendOrder(rs) == rs

\* Faulty variant: a route whose score is already in the list is dropped.
RankBySafetyDropTies(rs) ==
    LET sorted[n \in 0..Len(rs)] ==
            IF n = 0 THEN <<>>
            ELSE IF \E i \in 1..Len(sorted[n - 1]) :
                       sorted[n - 1][i].safety.score = rs[n].safety.score
                 THEN sorted[n - 1]
            ELSE InsertByScore(sorted[n - 1], rs[n])
    IN  sorted[Len(rs)]

RankBySafety(rs) ==
    LET sorted[n \in 0..Len(rs)] ==
            IF n = 0 THEN <<>> ELSE InsertByScore(sorted[n - 1], rs[n])
    IN  sorted[Len(rs)]

\* Faulty variant: the backend's first route is marked, wherever it ended up.
MarkRecommendedBackendFirst(rs) ==
    [i \in 1..Len(rs) |->
        IF rs[i].route_index = 0 THEN [rs[i] EXCEPT !.is_recommended = TRUE] ELSE rs[i]]

\* analyzed_routes[0]['is_recommended'] = True
MarkRecommended(rs) ==
    [i \in 1..Len(rs) |-> IF i = 1 THEN [rs[i] EXCEPT !.is_recommended = TRUE] ELSE rs[i]]

DataUnavailable ==
    [error |-> "Camera data not available", routes |-> <<>>, recommended_route |-> <<>>]

RoutingFailed ==
    [error |-> "Routing failed", routes |-> <<>>, recommended_route |-> <<>>]

\* recommended_route is a sequence of length 0 (None) or 1.
PlanFromResponse(response, cams) ==
    IF response.code # "Ok" THEN RoutingFailed
    ELSE LET analyzed == [i \in 1..Len(response.routes) |->
                            AnalyzeRoute(i - 1, response.routes[i], cams)]
             ranked   == MarkRecommended(RankBySafety(analyzed))
         IN  [error |-> "none",
              routes |-> ranked,
              recommended_route |-> IF ranked # <<>> THEN <<ranked[1]>> ELSE <<>>]

(***************************************************************************)
(* RoutePlanner.get_route: what the loop does with one endpoint's answer   *)
(***************************************************************************)
\* requests.get / raise_for_status / response.json raised a
\* RequestException (requests >= 2.27: JSONDecodeError is one).
RaisesRequestException(o) == o.kind \in RequestExceptionKinds

\* response.json() gave something without .get (a list, a string, null):
\* result.get raises AttributeError, which the except clause does not catch.
RaisesUncaught(o) == o.kind = "non_object"

\* if result.get('code') == 'Ok': return result
IsOk(o) == o.kind = "ok"

\* Faulty variant: the same server is tried again.
NextServerRetry(i) == i

\* The for loop moves on to the next element of osrm_servers.
NextServer(i) == i + 1

\* Faulty variant: the loop gives up after the first server.
ExhaustedEarly(i) == i > 1

\* The for loop has run off the end of osrm_servers.
Exhausted(i) == i > NumServers

(***************************************************************************)
(* Initial states                                                          *)
(***************************************************************************)
InitFile ==
    \/ /\ file_state \in {"missing", "corrupt"}
       /\ file_cameras = NoCameras
    \/ /\ file_state = "valid"
       /\ file_cameras \in Datasets

InitPlan ==
    /\ pc = "start"
    /\ exception = "none"
    /\ cameras = NoCameras
    /\ server_idx = 1
    /\ attempts = <<>>
    /\ osrm_response = NoResponse
    /\ fallback_calls = 0
    /\ plan_result = NoPlan

InitScore ==
    /\ matches_in = <<>>
    /\ safety_out = NotScored

NoMatchOut == [raised |-> "pending", matches |-> <<>>]

InitMatch ==
    /\ match_cameras = NoCameras
    /\ match_geometry = [c \in CameraIds |-> <<>>]
    /\ match_out = NoMatchOut

NoBody == [has_json |-> FALSE, origin |-> <<>>, destination |-> <<>>]
NoApiResponse == [status |-> 0, error |-> "pending", message |-> "pending", token |-> <<>>]

\* No HTTP request: plan_route is called directly.
InitApi ==
    /\ api_pc = "idle"
    /\ api_body = NoBody
    /\ api_origin = <<>>
    /\ api_destination = <<>>
    /\ geocode_calls = <<>>
    /\ api_response = NoApiResponse

NoFile == [exists |-> FALSE, version |-> 0, written |-> 0]

\* The pipeline is not running.
InitPublish ==
    /\ pub_pc = "not_running"
    /\ pub_disk = NoFile
    /\ pub_saves = 0
    /\ plan_loads = <<>>

NoPoint == [lon |-> 0, lat |-> 0]

\* _create_simple_route is not being looked at on its own.
InitFallback ==
    /\ fb_origin = NoPoint
    /\ fb_destination = NoPoint
    /\ fb_coords = <<>>

NoDistance == [t_num |-> 0, t_den |-> 0, dist_sq |-> -1]

\* point_to_line_distance is not being looked at on its own.
InitDistance ==
    /\ pd_point = NoPoint
    /\ pd_start = NoPoint
    /\ pd_end = NoPoint
    /\ pd_out = NoDistance

NotAnalyzed == [safety |-> NotScored, cameras_monitored |-> -1, hazardous_locations |-> <<>>]

\* The loop body of plan_route is not being looked at on its own.
InitAnalyze ==
    /\ an_nearby = <<>>
    /\ an_out = NotAnalyzed

\* The pipeline is not being run.
InitResume ==
    /\ rs_pc = "idle"
    /\ rs_stored = <<>>
    /\ rs_listed = {}
    /\ rs_results = <<>>
    /\ rs_todo = {}
    /\ rs_processed = <<>>
    /\ rs_completed = 0
    /\ rs_file = <<>>
    /\ rs_writes = 0

NoLevel == [level |-> "pending", confidence |-> 0]

\* get_safety_level is not being looked at on its own.
InitLevel ==
    /\ sl_result = <<>>
    /\ sl_threshold = 0
    /\ sl_out = NoLevel

Init ==
    /\ InitFile /\ InitPlan /\ InitScore /\ InitMatch /\ InitApi
    /\ InitPublish /\ InitFallback
    /\ InitDistance /\ InitAnalyze /\ InitResume /\ InitLevel

(***************************************************************************)
(* plan_route: loading the camera data                                     *)
(***************************************************************************)
\* if not self.results_file.exists(): return {'error': ...}
LoadMissing ==
    /\ pc = "start"
    /\ file_state = "missing"
    /\ plan_result' = DataUnavailable
    /\ pc' = "done"
    /\ UNCHANGED <<file_state, file_cameras, exception, cameras, server_idx,
                   attempts, osrm_response, fallback_calls>>
    /\ UNCHANGED outsidePlan

\* open / json.load raises; nothing in plan_route catches it.
LoadCorrupt ==
    /\ pc = "start"
    /\ file_state = "corrupt"
    /\ exception' = "JSONDecodeError"
    /\ pc' = "raised"
    /\ UNCHANGED <<file_state, file_cameras, cameras, server_idx, attempts,
                   osrm_response, fallback_calls, plan_result>>
    /\ UNCHANGED outsidePlan

\* cameras = json.load(f); get_route is entered.
LoadDataset ==
    /\ pc = "start"
    /\ file_state = "valid"
    /\ cameras' = file_cameras
    /\ server_idx' = 1
    /\ pc' = "routing"
    /\ UNCHANGED <<file_state, file_cameras, exception, attempts, osrm_response,
                   fallback_calls, plan_result>>
    /\ UNCHANGED outsidePlan

(***************************************************************************)
(* get_route: one request to osrm_servers[server_idx], and all that        *)
(* follows it without another request                                      *)
(***************************************************************************)
Requesting == pc = "routing" /\ ~Exhausted(server_idx)

Logged(o) == Append(attempts, [server |-> server_idx, outcome |-> o])

\* The answer is 'Ok': get_route returns it and plan_route runs to its end.
RequestReturns ==
    /\ Requesting
    /\ \E o \in Outcomes :
            /\ ~RaisesRequestException(o) /\ ~RaisesUncaught(o) /\ IsOk(o)
            /\ attempts' = Logged(o)
            /\ osrm_response' = [code |-> "Ok", routes |-> o.routes]
            /\ plan_result' = PlanFromResponse(osrm_response', cameras)
            /\ pc' = "done"
            /\ UNCHANGED <<file_state, file_cameras, exception, cameras, server_idx,
                           fallback_calls>>
            /\ UNCHANGED outsidePlan

\* The request failed and another server is left: continue with it.
RequestContinues ==
    /\ Requesting
    /\ \E o \in Outcomes :
            /\ RaisesRequestException(o) \/ (~RaisesUncaught(o) /\ ~IsOk(o))
            /\ ~Exhausted(NextServer(server_idx))
            /\ attempts' = Logged(o)
            /\ server_idx' = NextServer(server_idx)
            /\ UNCHANGED <<file_state, file_cameras, pc, exception, cameras,
                           osrm_response, fallback_calls, plan_result>>
            /\ UNCHANGED outsidePlan

\* The request failed and it was the last server: the straight-line route
\* is returned and plan_route runs to its end.
RequestExhausts ==
    /\ Requesting
    /\ \E o \in Outcomes, d \in StraightLineMetres, g \in Geometries :
            /\ RaisesRequestException(o) \/ (~RaisesUncaught(o) /\ ~IsOk(o))
            /\ Exhausted(NextServer(server_idx))
            /\ attempts' = Logged(o)
            /\ server_idx' = NextServer(server_idx)
            /\ fallback_calls' = fallback_calls + 1
            /\ osrm_response' = _create_simple_route(d, g)
            /\ plan_result' = PlanFromResponse(osrm_response', cameras)
            /\ pc' = "done"
            /\ UNCHANGED <<file_state, file_cameras, exception, cameras>>
            /\ UNCHANGED outsidePlan

\* The answer parsed but is no JSON object: AttributeError leaves get_route
\* and plan_route.
RequestRaises ==
    /\ Requesting
    /\ \E o \in Outcomes :
            /\ ~RaisesRequestException(o) /\ RaisesUncaught(o)
            /\ attempts' = Logged(o)
            /\ exception' = "AttributeError"
            /\ pc' = "raised"
            /\ UNCHANGED <<file_state, file_cameras, cameras, server_idx,
                           osrm_response, fallback_calls, plan_result>>
            /\ UNCHANGED outsidePlan

Next ==
    \/ LoadMissing
    \/ LoadCorrupt
    \/ LoadDataset
    \/ RequestReturns
    \/ RequestContinues
    \/ RequestExhausts
    \/ RequestRaises

Spec == Init /\ [][Next]_vars

(***************************************************************************)
(* SpecScore: score_route_safety on match lists                            *)
(***************************************************************************)
\* Safety levels a match can carry: the four the classifier emits and one
\* the scorer does not know.
MatchLevels == SafetyLevels \cup {"other"}

MatchWith(level, n) == [id |-> n, distance_m |-> 0, safety_level |-> level]

\* The scorer is called on the empty list.
ScoreEmpty ==
    /\ safety_out = NotScored
    /\ matches_in = <<>>
    /\ safety_out' = score_route_safety(matches_in)
    /\ UNCHANGED matches_in
    /\ UNCHANGED outsideScore

\* The scorer is called on the list extended by one match.
ScoreExtended ==
    \E level \in MatchLevels :
        /\ safety_out # NotScored
        /\ Len(matches_in) < MaxMatches
        /\ matches_in' = Append(matches_in, MatchWith(level, Len(matches_in) + 1))
        /\ safety_out' = score_route_safety(matches_in')
        /\ UNCHANGED outsideScore

InitScoreSpec ==
    /\ file_state = "missing"
    /\ file_cameras = NoCameras
    /\ InitPlan
    /\ InitScore
    /\ InitMatch
    /\ InitApi
    /\ InitPublish
    /\ InitFallback
    /\ InitDistance
    /\ InitAnalyze
    /\ InitResume
    /\ InitLevel

NextScore ==
    \/ ScoreEmpty
    \/ ScoreExtended

SpecScore == InitScoreSpec /\ [][NextScore]_vars

(***************************************************************************)
(* SpecMatch: find_cameras_near_route on datasets and routes               *)
(***************************************************************************)
\* Records of any shape the file may hold, beside the pipeline's: a missing
\* coordinate, a null or missing classification block, no camera metadata,
\* a missing or unrecognised status.
AnyCameraRecords ==
    {Classified("hazardous"), Classified("safe"), DownloadFailed,
     [Classified("hazardous") EXCEPT !.has_lat = FALSE],
     [Classified("hazardous") EXCEPT !.has_lon = FALSE],
     [Classified("hazardous") EXCEPT !.classification = "null"],
     [Classified("hazardous") EXCEPT !.classification = "absent"],
     [Classified("hazardous") EXCEPT !.has_camera = FALSE],
     [DownloadFailed EXCEPT !.status = "absent"],
     [Classified("hazardous") EXCEPT !.status = "pending"]}

\* Distances of one camera to the segments of a route: on the route, on
\* the buffer, one metre beyond it.
SegmentDistances == UNION {[1..n -> {0, 500, 501}] : n \in 0..MaxSegments}

InitMatchSpec ==
    /\ file_state = "missing"
    /\ file_cameras = NoCameras
    /\ InitPlan
    /\ InitScore
    /\ match_cameras \in [CameraIds -> AnyCameraRecords]
    /\ match_geometry \in [CameraIds -> SegmentDistances]
    /\ match_out = NoMatchOut
    /\ InitApi
    /\ InitPublish
    /\ InitFallback
    /\ InitDistance
    /\ InitAnalyze
    /\ InitResume
    /\ InitLevel

\* find_cameras_near_route(match_geometry, match_cameras) runs to its
\* return or to the exception that ends it.
MatchCall ==
    /\ match_out = NoMatchOut
    /\ match_out' =
          LET raised == find_cameras_raises(match_geometry, match_cameras)
          IN  [raised |-> raised,
               matches |-> IF raised = "none"
                           THEN find_cameras_near_route(match_geometry, match_cameras)
                           ELSE <<>>]
    /\ UNCHANGED <<match_cameras, match_geometry>>
    /\ UNCHANGED outsideMatch

NextMatch == MatchCall

SpecMatch == InitMatchSpec /\ [][NextMatch]_vars

(***************************************************************************)
(* SpecApi: POST /api/route (api_server.plan_route) with geocode_address   *)
(* and the plan_route call it makes                                        *)
(***************************************************************************)
\* A token is the sequence of its parts between commas; a part is what
\* float() makes of it: is_float says whether it parses, value the float
\* (in 1e-4 degrees).  The empty sequence is a missing or empty field.
Num(v) == [is_float |-> TRUE, value |-> v]
Text(n) == [is_float |-> FALSE, value |-> n]

Tokens ==
    {<<Num(-1118910), Num(407608)>>,     \* "-111.8910,40.7608"
     <<Text(1)>>,                         \* "Moab"
     <<Text(2), Text(3)>>,                \* "Park City, UT"
     <<Num(407608), Text(3)>>,            \* "40.7608, UT"
     <<Num(1), Num(2), Num(3)>>}          \* "1,2,3"

Bodies ==
    {NoBody}
    \cup {[has_json |-> TRUE, origin |-> o, destination |-> d] :
             o \in Tokens \cup {<<>>}, d \in Tokens \cup {<<>>}}

\* What the geocoding backend can come back with: a result list (two
\* results, the best first), an empty list, or a failed request.
GeocodeOutcomes ==
    {[kind |-> "found", results |-> <<[lon |-> -1095498, lat |-> 385733],
                                      [lon |-> -1115000, lat |-> 406000]>>],
     [kind |-> "empty", results |-> <<>>],
     [kind |-> "error", results |-> <<>>]}

\* geocode_address, from the backend's answer on: (lon, lat) of results[0],
\* None for no result and for any exception.
geocode_address(g) ==
    IF g.kind = "error" THEN <<>>
    ELSE IF g.results # <<>>
         THEN <<[lon |-> g.results[1].lon, lat |-> g.results[1].lat]>>
    ELSE <<>>

\* Faulty variant: the parts after the second are ignored.
IsLiteralAtLeastTwo(token) ==
    /\ Len(token) >= 2
    /\ token[1].is_float
    /\ token[2].is_float

\* len(parts) == 2 and float() of both parts does not raise ValueError.
IsLiteral(token) ==
    /\ Len(token) = 2
    /\ token[1].is_float
    /\ token[2].is_float

\* (float(parts[0]), float(parts[1])): longitude first.
LiteralCoordinate(token) == <<[lon |-> token[1].value, lat |-> token[2].value]>>

\* The token the handler is resolving.
TokenOf(which) == IF which = "origin" THEN api_body.origin ELSE api_body.destination

\* Faulty variant: the destination's error names the origin token.
UnresolvableOriginNamed(which, token) ==
    [status |-> 400, error |-> "Could not geocode " \o which,
     message |-> "Address not found", token |-> api_body.origin]

\* jsonify({"error": "Could not geocode <which>",
\*          "message": f"Address '{token}' not found"}), 400
Unresolvable(which, token) ==
    [status |-> 400, error |-> "Could not geocode " \o which,
     message |-> "Address not found", token |-> token]

Resolving(which) ==
    \/ which = "origin" /\ api_pc = "received"
    \/ which = "destination" /\ api_pc = "origin_done"

\* Both coordinates are there: route_planner.plan_route is entered.
Resolved(which, coordinate) ==
    IF which = "origin"
    THEN /\ api_origin' = coordinate
         /\ api_pc' = "origin_done"
         /\ UNCHANGED <<api_destination, pc>>
    ELSE /\ api_destination' = coordinate
         /\ api_pc' = "planning"
         /\ pc' = "start"
         /\ UNCHANGED api_origin

Fields == api_body.has_json /\ api_body.origin # <<>> /\ api_body.destination # <<>>

planVarsButPc == <<file_state, file_cameras, exception, cameras, server_idx,
                   attempts, osrm_response, fallback_calls, plan_result>>

\* if not data: return jsonify({"error": "No JSON data provided"}), 400
ApiNoJson ==
    /\ api_pc = "received"
    /\ ~api_body.has_json
    /\ api_response' = [status |-> 400, error |-> "No JSON data provided",
                        message |-> "none", token |-> <<>>]
    /\ api_pc' = "responded"
    /\ UNCHANGED <<api_body, api_origin, api_destination, geocode_calls>>
    /\ UNCHANGED <<planVars, outsideApi>>

\* if not origin_str or not dest_str: ... 400
ApiMissingField ==
    /\ api_pc = "received"
    /\ api_body.has_json
    /\ api_body.origin = <<>> \/ api_body.destination = <<>>
    /\ api_response' = [status |-> 400, error |-> "Missing required fields",
                        message |-> "Both 'origin' and 'destination' are required",
                        token |-> <<>>]
    /\ api_pc' = "responded"
    /\ UNCHANGED <<api_body, api_origin, api_destination, geocode_calls>>
    /\ UNCHANGED <<planVars, outsideApi>>

\* The token is a "lon,lat" pair: no geocoding.
ApiLiteral ==
    \E which \in {"origin", "destination"} :
        /\ Resolving(which)
        /\ Fields
        /\ IsLiteral(TokenOf(which))
        /\ Resolved(which, LiteralCoordinate(TokenOf(which)))
        /\ UNCHANGED <<api_body, geocode_calls, api_response>>
        /\ UNCHANGED <<planVarsButPc, outsideApi>>

\* The token goes to the geocoding backend, which finds it.
ApiGeocoded ==
    \E which \in {"origin", "destination"} :
        /\ Resolving(which)
        /\ Fields
        /\ ~IsLiteral(TokenOf(which))
        /\ \E g \in GeocodeOutcomes :
              /\ geocode_address(g) # <<>>
              /\ geocode_calls' = Append(geocode_calls,
                     [which |-> which, query |-> TokenOf(which), outcome |-> g])
              /\ Resolved(which, geocode_address(g))
        /\ UNCHANGED <<api_body, api_response>>
        /\ UNCHANGED <<planVarsButPc, outsideApi>>

\* The token goes to the geocoding backend, which returns nothing: 400.
ApiUnresolvable ==
    \E which \in {"origin", "destination"} :
        /\ Resolving(which)
        /\ Fields
        /\ ~IsLiteral(TokenOf(which))
        /\ \E g \in GeocodeOutcomes :
              /\ geocode_address(g) = <<>>
              /\ geocode_calls' = Append(geocode_calls,
                     [which |-> which, query |-> TokenOf(which), outcome |-> g])
        /\ api_response' = Unresolvable(which, TokenOf(which))
        /\ api_pc' = "responded"
        /\ UNCHANGED <<api_body, api_origin, api_destination>>
        /\ UNCHANGED <<planVars, outsideApi>>

\* return jsonify(result): status 200 whatever plan_route returned.
ApiReturnsResult ==
    /\ api_pc = "planning"
    /\ pc = "done"
    /\ api_response' = [status |-> 200, error |-> plan_result.error,
                        message |-> IF plan_result.error = "none" THEN "none"
                                    ELSE "Run fast_pipeline.py first to generate camera data",
                        token |-> <<>>]
    /\ api_pc' = "responded"
    /\ UNCHANGED <<api_body, api_origin, api_destination, geocode_calls>>
    /\ UNCHANGED <<planVars, outsideApi>>

\* except Exception as e: {"error": "Internal server error",
\*                         "message": str(e)}, 500
ApiReturnsFault ==
    /\ api_pc = "planning"
    /\ pc = "raised"
    /\ api_response' = [status |-> 500, error |-> "Internal server error",
                        message |-> exception, token |-> <<>>]
    /\ api_pc' = "responded"
    /\ UNCHANGED <<api_body, api_origin, api_destination, geocode_calls>>
    /\ UNCHANGED <<planVars, outsideApi>>

\* A request has arrived; plan_route has not been called.
InitApiSpec ==
    /\ file_state \in {"missing", "corrupt", "valid"}
    /\ file_cameras = IF file_state = "valid"
                      THEN [c \in CameraIds |-> Classified("hazardous")]
                      ELSE NoCameras
    /\ pc = "not_called"
    /\ exception = "none"
    /\ cameras = NoCameras
    /\ server_idx = 1
    /\ attempts = <<>>
    /\ osrm_response = NoResponse
    /\ fallback_calls = 0
    /\ plan_result = NoPlan
    /\ InitScore
    /\ InitMatch
    /\ api_pc = "received"
    /\ api_body \in Bodies
    /\ api_origin = <<>>
    /\ api_destination = <<>>
    /\ geocode_calls = <<>>
    /\ api_response = NoApiResponse
    /\ InitPublish
    /\ InitFallback
    /\ InitDistance
    /\ InitAnalyze
    /\ InitResume
    /\ InitLevel

NextApi ==
    \/ ApiNoJson
    \/ ApiMissingField
    \/ ApiLiteral
    \/ ApiGeocoded
    \/ ApiUnresolvable
    \/ LoadMissing
    \/ LoadCorrupt
    \/ LoadDataset
    \/ RequestReturns
    \/ RequestContinues
    \/ RequestExhausts
    \/ RequestRaises
    \/ ApiReturnsResult
    \/ ApiReturnsFault

SpecApi == InitApiSpec /\ [][NextApi]_vars

(***************************************************************************)
(* SpecPublish: the pipeline's saves of classification_results.json        *)
(* (fast_pipeline.process_cameras_parallel) next to plan_route's loads     *)
(***************************************************************************)
MaxCheckpoints == 2   \* periodic saves of one pipeline run
MaxLoads == 2         \* plan_route calls while the pipeline runs
DumpWrites == 2       \* writes reaching the file during one json.dump

\* The file an earlier pipeline run left behind.
EarlierFile == [exists |-> TRUE, version |-> 0, written |-> DumpWrites]

\* open(results_file, 'w'): the file is created or truncated in place.
OpenForWriting(version) == [exists |-> TRUE, version |-> version, written |-> 0]

Saving == pub_pc \in {"checkpoint", "final"}

\* os.path.exists, open, json.load of plan_route on the file as it is now.
LoadResult(disk) ==
    IF ~disk.exists THEN [result |-> "DataUnavailable", version |-> 0, written |-> 0]
    ELSE [result |-> IF disk.written = DumpWrites THEN "loaded" ELSE "JSONDecodeError",
          version |-> disk.version, written |-> disk.written]

\* Periodic save: open(results_file, 'w') under self.lock.
CheckpointOpens ==
    /\ pub_pc = "working"
    /\ pub_saves < MaxCheckpoints
    /\ pub_disk' = OpenForWriting(pub_saves + 1)
    /\ pub_saves' = pub_saves + 1
    /\ pub_pc' = "checkpoint"
    /\ UNCHANGED plan_loads
    /\ UNCHANGED outsidePublish

\* Final save: open(results_file, 'w').
FinalOpens ==
    /\ pub_pc = "working"
    /\ pub_disk' = OpenForWriting(pub_saves + 1)
    /\ pub_saves' = pub_saves + 1
    /\ pub_pc' = "final"
    /\ UNCHANGED plan_loads
    /\ UNCHANGED outsidePublish

\* json.dump: a buffer of the text reaches the file.
DumpWritten ==
    /\ Saving
    /\ pub_disk.written < DumpWrites - 1
    /\ pub_disk' = [pub_disk EXCEPT !.written = @ + 1]
    /\ UNCHANGED <<pub_pc, pub_saves, plan_loads>>
    /\ UNCHANGED outsidePublish

\* End of the with block: the rest is flushed and the file closed.
SaveCloses ==
    /\ Saving
    /\ pub_disk' = [pub_disk EXCEPT !.written = DumpWrites]
    /\ pub_pc' = IF pub_pc = "final" THEN "finished" ELSE "working"
    /\ UNCHANGED <<pub_saves, plan_loads>>
    /\ UNCHANGED outsidePublish

\* plan_route in the API process: no lock is shared with the pipeline.
PlanLoads ==
    /\ pub_pc # "not_running"
    /\ Len(plan_loads) < MaxLoads
    /\ plan_loads' = Append(plan_loads, LoadResult(pub_disk))
    /\ UNCHANGED <<pub_pc, pub_disk, pub_saves>>
    /\ UNCHANGED outsidePublish

InitPublishSpec ==
    /\ file_state = "missing"
    /\ file_cameras = NoCameras
    /\ InitPlan
    /\ InitScore
    /\ InitMatch
    /\ InitApi
    /\ InitFallback
    /\ pub_pc = "working"
    /\ pub_disk \in {NoFile, EarlierFile}
    /\ pub_saves = 0
    /\ plan_loads = <<>>
    /\ InitDistance
    /\ InitAnalyze
    /\ InitResume
    /\ InitLevel

NextPublish ==
    \/ CheckpointOpens
    \/ FinalOpens
    \/ DumpWritten
    \/ SaveCloses
    \/ PlanLoads

SpecPublish == InitPublishSpec /\ [][NextPublish]_vars

(***************************************************************************)
(* SpecFallback: the geometry of _create_simple_route                      *)
(***************************************************************************)
num_points == 10

\* Coordinates are in 1e-4 degrees.  Salt Lake City, Park City and Moab.
FallbackPoints ==
    {[lon |-> x, lat |-> y] : x \in {-1118910, -1114980, -1095498},
                              y \in {407608, 406461, 385733}}

\* origin + (i / num_points) * (destination - origin), as a multiple of
\* 1/num_points of the unit.
Interpolate(o, d, i) == num_points * o + i * (d - o)

\* Faulty variant: for i in range(num_points).
SimpleRouteCoordsShort(origin, destination) ==
    [k \in 1..num_points |->
        [lon |-> Interpolate(origin.lon, destination.lon, k - 1),
         lat |-> Interpolate(origin.lat, destination.lat, k - 1)]]

\* for i in range(num_points + 1): coords.append([lon, lat])
SimpleRouteCoords(origin, destination) ==
    [k \in 1..(num_points + 1) |->
        [lon |-> Interpolate(origin.lon, destination.lon, k - 1),
         lat |-> Interpolate(origin.lat, destination.lat, k - 1)]]

CreateSimpleRoute ==
    /\ fb_coords = <<>>
    /\ fb_coords' = SimpleRouteCoords(fb_origin, fb_destination)
    /\ UNCHANGED <<fb_origin, fb_destination>>
    /\ UNCHANGED outsideFallback

InitFallbackSpec ==
    /\ file_state = "missing"
    /\ file_cameras = NoCameras
    /\ InitPlan
    /\ InitScore
    /\ InitMatch
    /\ InitApi
    /\ InitPublish
    /\ fb_origin \in FallbackPoints
    /\ fb_destination \in FallbackPoints
    /\ fb_coords = <<>>
    /\ InitDistance
    /\ InitAnalyze
    /\ InitResume
    /\ InitLevel

NextFallback == CreateSimpleRoute

SpecFallback == InitFallbackSpec /\ [][NextFallback]_vars

(***************************************************************************)
(* SpecDistance: RoutePlanner.point_to_line_distance                       *)
(***************************************************************************)
GridMax == 2

\* Points of a grid of longitude/latitude steps around 41.4 degrees north,
\* where a step of longitude is 3/4 as long as a step of latitude.
GridPoints == {[lon |-> x, lat |-> y] : x \in 0..GridMax, y \in 0..GridMax}

\* haversine_distance between two grid points, squared, in units of a
\* quarter of a latitude step: over a few kilometres the formula's
\* a = sin^2(dlat/2) + cos(lat1) cos(lat2) sin^2(dlon/2) is the flat
\* (dlat/2)^2 + (cos(lat) dlon/2)^2.  The arguments are in n-ths of a step.
haversine_sq(lon1, lat1, lon2, lat2) ==
    (3 * (lon2 - lon1)) * (3 * (lon2 - lon1)) + (4 * (lat2 - lat1)) * (4 * (lat2 - lat1))

\* max(0, min(1, raw / den)), as the numerator over den (den > 0).
Clamp(raw, den) == Max(0, Min(den, raw))

\* t is t_num / t_den; dist_sq is the squared distance in units of
\* 1/t_den of a quarter step.
point_to_line_distance(point, line_start, line_end) ==
    LET px == point.lon
        py == point.lat
        x1 == line_start.lon
        y1 == line_start.lat
        x2 == line_end.lon
        y2 == line_end.lat
        dx == x2 - x1
        dy == y2 - y1
        den == dx * dx + dy * dy
        num == Clamp((px - x1) * dx + (py - y1) * dy, den)
    IN  IF x1 = x2 /\ y1 = y2
        THEN [t_num |-> 0, t_den |-> 1, dist_sq |-> haversine_sq(px, py, x1, y1)]
        ELSE [t_num |-> num, t_den |-> den,
              dist_sq |-> haversine_sq(px * den, py * den,
                                       x1 * den + num * dx, y1 * den + num * dy)]

DistanceCall ==
    /\ pd_out = NoDistance
    /\ pd_out' = point_to_line_distance(pd_point, pd_start, pd_end)
    /\ UNCHANGED <<pd_point, pd_start, pd_end>>
    /\ UNCHANGED outsideDistance

InitDistanceSpec ==
    /\ file_state = "missing"
    /\ file_cameras = NoCameras
    /\ InitPlan
    /\ InitScore
    /\ InitMatch
    /\ InitApi
    /\ InitPublish
    /\ InitFallback
    /\ InitAnalyze
    /\ InitResume
    /\ InitLevel
    /\ pd_point \in GridPoints
    /\ pd_start \in GridPoints
    /\ pd_end \in GridPoints
    /\ pd_out = NoDistance

NextDistance == DistanceCall

SpecDistance == InitDistanceSpec /\ [][NextDistance]_vars

(***************************************************************************)
(* SpecAnalyze: the body of plan_route's loop over the routes, from the    *)
(* cameras find_cameras_near_route has collected to the analyzed route     *)
(***************************************************************************)
MaxNearby == 6

\* The cameras kept for a route, in the order of the dataset, before the
\* sort: the id is the position, the distance is in metres.
FoundCameras ==
    UNION {[1..n -> [distance_m : {100, 300}, safety_level : {"hazardous", "safe"}]] :
              n \in 0..MaxNearby}

WithIds(found) ==
    [k \in 1..Len(found) |->
        [id |-> k, distance_m |-> found[k].distance_m,
         safety_level |-> found[k].safety_level]]

\* nearby_cameras.sort(...); safety; hazardous_cameras; the appended dict.
AnalyzeNearby ==
    /\ an_out = NotAnalyzed
    /\ LET nearby_cameras == SortByDistance(an_nearby)
       IN  an_out' = [safety |-> score_route_safety(nearby_cameras),
                      cameras_monitored |-> Len(nearby_cameras),
                      hazardous_locations |-> HazardousCameras(nearby_cameras)]
    /\ UNCHANGED an_nearby
    /\ UNCHANGED outsideAnalyze

InitAnalyzeSpec ==
    /\ file_state = "missing"
    /\ file_cameras = NoCameras
    /\ InitPlan
    /\ InitScore
    /\ InitMatch
    /\ InitApi
    /\ InitPublish
    /\ InitFallback
    /\ InitDistance
    /\ InitResume
    /\ InitLevel
    /\ an_nearby \in {WithIds(found) : found \in FoundCameras}
    /\ an_out = NotAnalyzed

NextAnalyze == AnalyzeNearby

SpecAnalyze == InitAnalyzeSpec /\ [][NextAnalyze]_vars

(***************************************************************************)
(* SpecLevel: FastRoadClassifier.get_safety_level                          *)
(***************************************************************************)
\* Strings are sequences of characters, so that `in` and lower() are what
\* they are in Python.  The candidate labels of classify_road_condition:
DryClearRoadSurface ==
    <<"d", "r", "y", " ", "c", "l", "e", "a", "r", " ", "r", "o", "a", "d",
      " ", "s", "u", "r", "f", "a", "c", "e">>
WetRoadPavement ==
    <<"w", "e", "t", " ", "r", "o", "a", "d", " ", "p", "a", "v", "e", "m",
      "e", "n", "t">>
SnowOnRoad ==
    <<"s", "n", "o", "w", " ", "o", "n", " ", "r", "o", "a", "d">>
IcyRoadSurface ==
    <<"i", "c", "y", " ", "r", "o", "a", "d", " ", "s", "u", "r", "f", "a",
      "c", "e">>
SlushyRoad ==
    <<"s", "l", "u", "s", "h", "y", " ", "r", "o", "a", "d">>
ClearRoadInWinter ==
    <<"c", "l", "e", "a", "r", " ", "r", "o", "a", "d", " ", "i", "n", " ",
      "w", "i", "n", "t", "e", "r", " ", "w", "i", "t", "h", " ", "s", "n",
      "o", "w", " ", "o", "n", " ", "s", "i", "d", "e", "s">>
\* The third label as a caller may spell it.
SnowOnRoadCapitals ==
    <<"S", "n", "o", "w", " ", "O", "n", " ", "R", "o", "a", "d">>

road_conditions ==
    {DryClearRoadSurface, WetRoadPavement, SnowOnRoad, IcyRoadSurface, SlushyRoad,
     ClearRoadInWinter}

UpperLetters ==
    <<"A", "B", "C", "D", "E", "F", "G", "H", "I", "J", "K", "L", "M", "N",
      "O", "P", "Q", "R", "S", "T", "U", "V", "W", "X", "Y", "Z">>
LowerLetters ==
    <<"a", "b", "c", "d", "e", "f", "g", "h", "i", "j", "k", "l", "m", "n",
      "o", "p", "q", "r", "s", "t", "u", "v", "w", "x", "y", "z">>

\* str.lower()
Lower(text) ==
    [i \in 1..Len(text) |->
        IF \E k \in 1..26 : UpperLetters[k] = text[i]
        THEN LowerLetters[CHOOSE k \in 1..26 : UpperLetters[k] = text[i]]
        ELSE text[i]]

\* word in text
Contains(word, text) ==
    \E i \in 1..(Len(text) - Len(word) + 1) :
        SubSeq(text, i, i + Len(word) - 1) = word

\* Scores and thresholds are in hundredths.
ClassificationResults ==
    {<<>>} \cup
    {<<[label |-> l, score |-> c]>> :
        l \in road_conditions \cup {SnowOnRoadCapitals}, c \in {10, 49, 50, 51, 90}}

\* The first matching branch decides; 'clear road in winter' and 'dry' are
\* looked for before the keywords snow, ice, slush.
get_safety_level(classification_result, min_hazard_confidence) ==
    IF classification_result = <<>> THEN [level |-> "unknown", confidence |-> 0]
    ELSE LET condition == Lower(classification_result[1].label)
             confidence == classification_result[1].score
         IN  IF \/ Contains(<<"c", "l", "e", "a", "r", " ", "r", "o", "a", "d", " ", "i", "n", " ", "w", "i", "n", "t", "e", "r">>, condition)
                \/ Contains(<<"d", "r", "y">>, condition)
             THEN [level |-> "safe", confidence |-> confidence]
             ELSE IF Contains(<<"w", "e", "t">>, condition)
             THEN [level |-> "caution", confidence |-> confidence]
             ELSE IF \E word \in {<<"s", "n", "o", "w">>, <<"i", "c", "e">>,
                                  <<"s", "l", "u", "s", "h">>} : Contains(word, condition)
             THEN IF confidence >= min_hazard_confidence
                  THEN [level |-> "hazardous", confidence |-> confidence]
                  ELSE [level |-> "unknown", confidence |-> confidence]
             ELSE [level |-> "unknown", confidence |-> confidence]

LevelCall ==
    /\ sl_out = NoLevel
    /\ sl_out' = get_safety_level(sl_result, sl_threshold)
    /\ UNCHANGED <<sl_result, sl_threshold>>
    /\ UNCHANGED outsideLevel

InitLevelSpec ==
    /\ file_state = "missing"
    /\ file_cameras = NoCameras
    /\ InitPlan
    /\ InitScore
    /\ InitMatch
    /\ InitApi
    /\ InitPublish
    /\ InitFallback
    /\ InitDistance
    /\ InitAnalyze
    /\ InitResume
    /\ sl_result \in ClassificationResults
    /\ sl_threshold \in {50, 80}
    /\ sl_out = NoLevel

NextLevel == LevelCall

SpecLevel == InitLevelSpec /\ [][NextLevel]_vars

(***************************************************************************)
(* SpecResume: FastClassificationPipeline.process_cameras_parallel with    *)
(* resume=True                                                             *)
(***************************************************************************)
MaxResumeCameras == 2
CheckpointEvery == 20

ResumeIds == 1..MaxResumeCameras

\* A record of the results file: its status and the run that wrote it (0 an
\* earlier run, 1 this run); status "absent" stands for no record.
Absent == [status |-> "absent", run |-> 0]
StoredRecords ==
    {Absent, [status |-> "success", run |-> 0], [status |-> "download_failed", run |-> 0]}

\* What process_single_camera returns.
ProcessStatuses == {"success", "download_failed", "classification_failed", "error"}

\* Faulty variant: every listed camera is processed.
NeedsProcessingAll(results, id) == TRUE

\* cam['id'] not in self.results or self.results[cam['id']]['status'] != 'success'
NeedsProcessing(results, id) ==
    results[id] = Absent \/ results[id].status # "success"

\* The cameras left after the filter.
Filtered == {id \in rs_listed : NeedsProcessing(rs_stored, id)}

\* Nothing is left: return self.results, the file is not touched.
ResumeNothingToDo ==
    /\ rs_pc = "start"
    /\ Filtered = {}
    /\ rs_results' = rs_stored
    /\ rs_pc' = "done"
    /\ UNCHANGED <<rs_stored, rs_listed, rs_todo, rs_processed, rs_completed,
                   rs_file, rs_writes>>
    /\ UNCHANGED outsideResume

\* The stored results are loaded and the cameras left are submitted.
ResumeSubmits ==
    /\ rs_pc = "start"
    /\ Filtered # {}
    /\ rs_results' = rs_stored
    /\ rs_todo' = Filtered
    /\ rs_pc' = "pool"
    /\ UNCHANGED <<rs_stored, rs_listed, rs_processed, rs_completed, rs_file, rs_writes>>
    /\ UNCHANGED outsideResume

\* One future completes, in any order: its result is stored, and every
\* CheckpointEvery-th completion saves the results.
CollectResult ==
    /\ rs_pc = "pool"
    /\ \E id \in rs_todo, status \in ProcessStatuses :
          /\ rs_results' = [rs_results EXCEPT ![id] = [status |-> status, run |-> 1]]
          /\ rs_todo' = rs_todo \ {id}
          /\ rs_processed' = [rs_processed EXCEPT ![id] = @ + 1]
    /\ rs_completed' = rs_completed + 1
    /\ IF rs_completed' % CheckpointEvery = 0
       THEN rs_file' = rs_results' /\ rs_writes' = rs_writes + 1
       ELSE UNCHANGED <<rs_file, rs_writes>>
    /\ UNCHANGED <<rs_pc, rs_stored, rs_listed>>
    /\ UNCHANGED outsideResume

\* Final save.
FinalSave ==
    /\ rs_pc = "pool"
    /\ rs_todo = {}
    /\ rs_file' = rs_results
    /\ rs_writes' = rs_writes + 1
    /\ rs_pc' = "done"
    /\ UNCHANGED <<rs_stored, rs_listed, rs_results, rs_todo, rs_processed, rs_completed>>
    /\ UNCHANGED outsideResume

InitResumeSpec ==
    /\ file_state = "missing"
    /\ file_cameras = NoCameras
    /\ InitPlan
    /\ InitScore
    /\ InitMatch
    /\ InitApi
    /\ InitPublish
    /\ InitFallback
    /\ InitDistance
    /\ InitAnalyze
    /\ InitLevel
    /\ rs_pc = "start"
    /\ rs_stored \in [ResumeIds -> StoredRecords]
    /\ rs_listed \in SUBSET ResumeIds
    /\ rs_results = [id \in ResumeIds |-> Absent]
    /\ rs_todo = {}
    /\ rs_processed = [id \in ResumeIds |-> 0]
    /\ rs_completed = 0
    /\ rs_file = rs_stored
    /\ rs_writes = 0

NextResume ==
    \/ ResumeNothingToDo
    \/ ResumeSubmits
    \/ CollectResult
    \/ FinalSave

SpecResume == InitResumeSpec /\ [][NextResume]_vars

(***************************************************************************)
(* Properties of get_route (Spec)                                          *)
(***************************************************************************)
GetRouteReturned == pc = "done" /\ attempts # <<>>

LastAttempt == attempts[Len(attempts)]

AllServersFailed ==
    /\ Len(attempts) = NumServers
    /\ \A i \in 1..Len(attempts) : attempts[i].outcome.kind \in FailureKinds

\* C1: get_route never lets a backend failure reach its caller and always
\* returns a result with at least one route, whatever each endpoint answers.
C1_NeverRaisesAndAtLeastOneRoute ==
    /\ exception # "AttributeError"
    /\ GetRouteReturned => Len(osrm_response.routes) >= 1

\* C2: the endpoints are requested strictly in list order, each at most
\* once; only a failed request is followed by another one, and a failed
\* request is followed by the request to the next endpoint while one is left.
C2_OrderedFailoverWithoutRetry ==
    /\ Len(attempts) <= NumServers
    /\ \A i \in 1..Len(attempts) : attempts[i].server = i
    /\ \A i \in 1..(Len(attempts) - 1) : attempts[i].outcome.kind \in FailureKinds
    /\ pc = "routing" => server_idx = Len(attempts) + 1 /\ server_idx <= NumServers
    /\ (GetRouteReturned /\ LastAttempt.outcome.kind \in FailureKinds)
           => Len(attempts) = NumServers

C2_Witness ==
    /\ pc = "done"
    /\ Len(attempts) = 2
    /\ attempts[1].outcome.kind = "timeout"
    /\ attempts[2].outcome.kind = "ok"
    /\ Len(attempts[2].outcome.routes) = 2

FallbackResponses ==
    {_create_simple_route(d, g) : d \in StraightLineMetres, g \in Geometries}

C4_OkWithoutRoutesNotReturned ==
    GetRouteReturned =>
        \A i \in 1..Len(attempts) :
            (attempts[i].outcome.kind = "ok" /\ attempts[i].outcome.routes = <<>>)
                => (i < Len(attempts) \/ fallback_calls = 1)

(***************************************************************************)
(* Properties of plan_route's ranking (Spec)                               *)
(***************************************************************************)
PlanSucceeded == pc = "done" /\ plan_result.error = "none"

\* C5: in a successful result the recommended route is the first of the
\* list and the list is in non-increasing order of safety score.
C5_RecommendedIsFirstAndSafest ==
    PlanSucceeded =>
        LET rs == plan_result.routes
        IN  /\ rs # <<>> => plan_result.recommended_route = <<rs[1]>>
            /\ \A i \in 1..Len(rs) : rs[1].safety.score >= rs[i].safety.score
            /\ \A i \in 1..(Len(rs) - 1) : rs[i].safety.score >= rs[i + 1].safety.score

\* The backend's second route scored higher than its first and was moved up.
C5_Witness ==
    /\ PlanSucceeded
    /\ Len(plan_result.routes) = 2
    /\ plan_result.routes[1].route_index = 1
    /\ plan_result.routes[1].safety.score > plan_result.routes[2].safety.score

\* C6: routes of equal safety score keep the order in which the backend
\* returned them, whatever their rating, distance or duration; route_index
\* is the position the route had in the backend's list.
C6_RankingIsStable ==
    PlanSucceeded =>
        LET rs == plan_result.routes
        IN  /\ \A i \in 1..Len(rs) :
                  /\ rs[i].route_index + 1 \in 1..Len(osrm_response.routes)
                  /\ rs[i].geometry = osrm_response.routes[rs[i].route_index + 1].geometry
                  /\ rs[i].legs = osrm_response.routes[rs[i].route_index + 1].legs
            /\ \A i, j \in 1..Len(rs) :
                  (i < j /\ rs[i].safety.score = rs[j].safety.score)
                      => rs[i].route_index < rs[j].route_index

\* Two routes tie on the score and differ in rating, distance and duration.
C6_Witness ==
    /\ PlanSucceeded
    /\ Len(plan_result.routes) = 2
    /\ plan_result.routes[1].safety.score = plan_result.routes[2].safety.score
    /\ plan_result.routes[1].safety.rating # plan_result.routes[2].safety.rating
    /\ plan_result.routes[1].distance_km > plan_result.routes[2].distance_km
    /\ plan_result.routes[1].duration_min > plan_result.routes[2].duration_min

(***************************************************************************)
(* Properties of score_route_safety (SpecScore)                            *)
(***************************************************************************)
Scored == safety_out # NotScored

NumWithLevel(level) ==
    Cardinality({i \in 1..Len(matches_in) : matches_in[i].safety_level = level})

\* C7: the empty match list scores 100 with rating 'unknown' and all four
\* counts 0.
C7_EmptyMatchList ==
    (Scored /\ matches_in = <<>>) =>
        /\ safety_out.score = 100
        /\ safety_out.rating = "unknown"
        /\ safety_out.hazard_count = 0
        /\ safety_out.caution_count = 0
        /\ safety_out.safe_count = 0
        /\ safety_out.total_cameras = 0

C7_Witness == Scored /\ matches_in = <<>> /\ safety_out.rating = "unknown"

\* C8: for a non-empty list with H hazardous, C caution and S safe matches
\* the score is max(0, min(100, 100 - 30H - 10C + 5S)) and lies in 0..100;
\* the counts are H, C and S, every match counts in total_cameras, and one
\* hazardous match alone gives score 70 with hazard_count 1.
C8_ScoreFormula ==
    (Scored /\ matches_in # <<>>) =>
        LET H == NumWithLevel("hazardous")
            C == NumWithLevel("caution")
            S == NumWithLevel("safe")
            f == 100 - 30 * H - 10 * C + 5 * S
        IN  /\ safety_out.score = (IF f < 0 THEN 0 ELSE IF f > 100 THEN 100 ELSE f)
            /\ safety_out.score \in 0..100
            /\ safety_out.hazard_count = H
            /\ safety_out.caution_count = C
            /\ safety_out.safe_count = S
            /\ safety_out.total_cameras = Len(matches_in)
            /\ (H = 1 /\ Len(matches_in) = 1) =>
                   (safety_out.score = 70 /\ safety_out.hazard_count = 1)

\* Both clamps' neighbourhood: four hazardous matches bring the score to 0,
\* with matches of a level that is none of the three in the list.
C8_Witness ==
    /\ Scored
    /\ Len(matches_in) = 7
    /\ NumWithLevel("hazardous") = 4
    /\ NumWithLevel("unknown") = 1
    /\ NumWithLevel("other") = 1
    /\ NumWithLevel("safe") = 1
    /\ safety_out.score = 0
    /\ safety_out.total_cameras = 7

\* C9: the rating of a non-empty list is 'hazardous' if H > 0, else
\* 'caution' if C > 0.3 * total, else 'safe' if S > 0, else 'unknown'; so one
\* hazardous match gives 'hazardous' whatever the score, and three caution
\* matches out of three give 'caution'.
C9_RatingPriority ==
    (Scored /\ matches_in # <<>>) =>
        LET H == NumWithLevel("hazardous")
            C == NumWithLevel("caution")
            S == NumWithLevel("safe")
            total == Len(matches_in)
        IN  /\ H > 0 => safety_out.rating = "hazardous"
            /\ (H = 0 /\ 10 * C > 3 * total) => safety_out.rating = "caution"
            /\ (H = 0 /\ 10 * C <= 3 * total /\ S > 0) => safety_out.rating = "safe"
            /\ (H = 0 /\ 10 * C <= 3 * total /\ S = 0) => safety_out.rating = "unknown"
            /\ (C = 3 /\ total = 3) => safety_out.rating = "caution"

\* One hazardous match among six safe ones: score 100, rating 'hazardous'.
C9_Witness ==
    /\ Scored
    /\ NumWithLevel("hazardous") = 1
    /\ NumWithLevel("safe") = 6
    /\ safety_out.score = 100
    /\ safety_out.rating = "hazardous"

HazardousAdded ==
    /\ Scored
    /\ matches_in' = Append(matches_in, MatchWith("hazardous", Len(matches_in) + 1))

\* C10: adding one hazardous match to a match list, the caution and safe
\* counts staying as they are, never raises the score.
C10_ScoreMonotoneInHazards ==
    [][HazardousAdded =>
          /\ safety_out'.caution_count = safety_out.caution_count
          /\ safety_out'.safe_count = safety_out.safe_count
          /\ safety_out'.score <= safety_out.score]_vars

\* A hazardous match came last and the score is lower than without it.
C10_Witness ==
    /\ Scored
    /\ Len(matches_in) >= 2
    /\ matches_in[Len(matches_in)].safety_level = "hazardous"
    /\ safety_out.score < score_route_safety(SubSeq(matches_in, 1, Len(matches_in) - 1)).score
    /\ safety_out.score > 0

(***************************************************************************)
(* Properties of find_cameras_near_route (SpecMatch)                       *)
(***************************************************************************)
MatchReturned == match_out # NoMatchOut /\ match_out.raised = "none"

MatchedIds == {match_out.matches[i].id : i \in 1..Len(match_out.matches)}

\* Some segment of the route is within the buffer of camera c.
WithinBuffer(c) ==
    \E i \in 1..Len(match_geometry[c]) : match_geometry[c][i] <= 500

OnTheRoute(c) ==
    \E i \in 1..Len(match_geometry[c]) : match_geometry[c][i] = 0

\* C11: no camera whose status is not 'success' is returned, even one that
\* lies exactly on the route.
C11_OnlySuccessCamerasMatched ==
    MatchReturned =>
        \A c \in CameraIds :
            match_cameras[c].status # "success" => c \notin MatchedIds

C11_Witness ==
    /\ MatchReturned
    /\ \E c \in CameraIds :
          /\ match_cameras[c].status = "download_failed"
          /\ OnTheRoute(c)
          /\ c \notin MatchedIds

FullyLocated(c) ==
    /\ match_cameras[c].status = "success"
    /\ match_cameras[c].has_camera
    /\ match_cameras[c].has_lat
    /\ match_cameras[c].has_lon

MissingCoordinate(c) ==
    /\ match_cameras[c].status = "success"
    /\ match_cameras[c].has_camera
    /\ ~match_cameras[c].has_lat \/ ~match_cameras[c].has_lon

\* C12: a 'success' camera with both coordinates is returned exactly when
\* its smallest segment distance is at most the 0.5 km buffer, the boundary
\* included, and it is returned with that distance; a 'success' camera
\* without latitude or longitude is left out and raises nothing.
C12_MatchedIffWithinBuffer ==
    /\ MatchReturned =>
          \A c \in CameraIds :
              /\ FullyLocated(c) => (c \in MatchedIds <=> WithinBuffer(c))
              /\ MissingCoordinate(c) => c \notin MatchedIds
              /\ \A i \in 1..Len(match_out.matches) :
                    match_out.matches[i].id = c =>
                        /\ \E j \in 1..Len(match_geometry[c]) :
                              match_geometry[c][j] = match_out.matches[i].distance_m
                        /\ \A j \in 1..Len(match_geometry[c]) :
                              match_geometry[c][j] >= match_out.matches[i].distance_m
    /\ (match_out # NoMatchOut
        /\ \A c \in CameraIds :
              MissingCoordinate(c) \/ match_cameras[c] \in CameraRecords)
           => match_out.raised = "none"

\* A camera at exactly 500 m from its nearest segment, the one after a
\* farther segment, is returned.
C12_Witness ==
    /\ MatchReturned
    /\ \E c \in CameraIds :
          /\ FullyLocated(c)
          /\ match_geometry[c] = <<501, 500>>
          /\ c \in MatchedIds

\* C19: find_cameras_near_route ends without an error for records of every
\* shape, and a record that is not a successful, fully populated one gives
\* no match.
C19_ToleratesEveryRecordShape ==
    match_out # NoMatchOut =>
        /\ match_out.raised = "none"
        /\ \A c \in MatchedIds :
              FullyLocated(c) /\ match_cameras[c].classification = "dict"

(***************************************************************************)
(* Properties of POST /api/route (SpecApi)                                 *)
(***************************************************************************)
Responded == api_pc = "responded"

CallsFor(which) == SelectSeq(geocode_calls, LAMBDA call : call.which = which)

\* C13: with the camera dataset missing, the request ends with the
\* "Camera data not available" error and no geocoding request and no routing
\* request is ever issued for it.
C13_UnavailableBeforeAnyBackendCall ==
    file_state = "missing" =>
        /\ geocode_calls = <<>>
        /\ attempts = <<>>
        /\ fallback_calls = 0
        /\ pc = "done" => plan_result.error = "Camera data not available"

UnresolvedCall(call) == call.outcome.kind # "found" \/ call.outcome.results = <<>>

\* C14: when the geocoding of a token gives no result or fails, the request
\* ends there with status 400 and the error "Could not geocode origin"
\* (resp. destination) whose message names that endpoint's token; the
\* dataset is not loaded and no routing request is made.  A request is
\* answered with this error only in that case.
C14_UnresolvableNamesTokenAndStops ==
    /\ \A i \in 1..Len(geocode_calls) :
          UnresolvedCall(geocode_calls[i]) =>
              /\ i = Len(geocode_calls)
              /\ Responded
              /\ api_response.status = 400
              /\ api_response.error = "Could not geocode " \o geocode_calls[i].which
              /\ api_response.message = "Address not found"
              /\ api_response.token = IF geocode_calls[i].which = "origin"
                                      THEN api_body.origin
                                      ELSE api_body.destination
              /\ pc = "not_called"
              /\ cameras = NoCameras
              /\ attempts = <<>>
              /\ fallback_calls = 0
    /\ api_response.error \in {"Could not geocode origin", "Could not geocode destination"}
          => /\ geocode_calls # <<>>
             /\ UnresolvedCall(geocode_calls[Len(geocode_calls)])

\* The origin was found by the geocoder, the destination (another token)
\* was not.
C14_Witness ==
    /\ Responded
    /\ api_response.error = "Could not geocode destination"
    /\ Len(geocode_calls) = 2
    /\ api_body.origin # api_body.destination
    /\ geocode_calls[2].outcome.kind = "error"

TwoFloats(token) == Len(token) = 2 /\ \A i \in 1..2 : token[i].is_float

\* The handler has dealt with this endpoint's token.
Attempted(which) ==
    IF which = "origin"
    THEN \/ api_origin # <<>>
         \/ api_response.error = "Could not geocode origin"
    ELSE \/ api_destination # <<>>
         \/ api_response.error = "Could not geocode destination"

EndpointOf(which) == IF which = "origin" THEN api_origin ELSE api_destination

\* C15: an endpoint whose token has exactly two parts, both floats, is the
\* literal (longitude, latitude) pair and no geocoding request is made for
\* it; for any other token the whole token is sent to the geocoder exactly
\* once, and the endpoint is the first result of that request.
C15_LiteralIffTwoFloats ==
    \A which \in {"origin", "destination"} :
        LET token == IF which = "origin" THEN api_body.origin ELSE api_body.destination
            calls == CallsFor(which)
        IN  /\ ~Attempted(which) => calls = <<>>
            /\ Attempted(which) /\ TwoFloats(token) =>
                  /\ calls = <<>>
                  /\ EndpointOf(which) = <<[lon |-> token[1].value, lat |-> token[2].value]>>
            /\ Attempted(which) /\ ~TwoFloats(token) =>
                  /\ Len(calls) = 1
                  /\ calls[1].query = token
                  /\ EndpointOf(which) # <<>> =>
                        /\ calls[1].outcome.results # <<>>
                        /\ EndpointOf(which) = <<calls[1].outcome.results[1]>>

\* plan_route is entered with a geocoded "Park City, UT" as the origin and
\* a literal pair as the destination, after one geocoding request.
C15_Witness ==
    /\ api_pc = "planning"
    /\ api_body.origin = <<Text(2), Text(3)>>
    /\ api_body.destination = <<Num(-1118910), Num(407608)>>
    /\ Len(geocode_calls) = 1
    /\ api_destination = <<[lon |-> -1118910, lat |-> 407608]>>

ClientErrors ==
    {"Camera data not available",
     "Could not geocode origin", "Could not geocode destination",
     "No JSON data provided", "Missing required fields"}

\* C16: a response for a missing dataset, an unresolvable location or an
\* invalid request has a 4xx status, an error code and a message.
C16_ClientErrorsAre4xx ==
    Responded /\ api_response.error \in ClientErrors =>
        /\ api_response.status \in 400..499
        /\ api_response.message # "none"

\* C17: the response to an internal fault has a 5xx status and a body that
\* does not depend on the fault: its message is not the exception's text.
C17_FaultResponseIsGeneric ==
    Responded /\ pc = "raised" =>
        /\ api_response.status \in 500..599
        /\ api_response.error = "Internal server error"
        /\ api_response.message # exception

(***************************************************************************)
(* Properties of the dataset's publication (SpecPublish)                   *)
(***************************************************************************)
\* C18: every load of plan_route that finds the file sees the complete
\* content of one save, the previous one or the new one, never a part of
\* it, and so loads it.
C18_LoadsSeeCompleteContent ==
    \A i \in 1..Len(plan_loads) :
        plan_loads[i].result # "DataUnavailable" =>
            /\ plan_loads[i].written = DumpWrites
            /\ plan_loads[i].result = "loaded"

(***************************************************************************)
(* Properties of _create_simple_route (SpecFallback)                       *)
(***************************************************************************)
Abs(x) == IF x < 0 THEN -x ELSE x

C21_AtMostDistanceToEnds ==
    pd_out # NoDistance =>
        /\ pd_out.dist_sq <= pd_out.t_den * pd_out.t_den
               * haversine_sq(pd_point.lon, pd_point.lat, pd_start.lon, pd_start.lat)
        /\ pd_out.dist_sq <= pd_out.t_den * pd_out.t_den
               * haversine_sq(pd_point.lon, pd_point.lat, pd_end.lon, pd_end.lat)
        /\ 0 <= pd_out.t_num /\ pd_out.t_num <= pd_out.t_den
        /\ pd_start = pd_end =>
              pd_out.dist_sq = pd_out.t_den * pd_out.t_den
                  * haversine_sq(pd_point.lon, pd_point.lat, pd_start.lon, pd_start.lat)

(***************************************************************************)
(* Further properties of plan_route (Spec)                                 *)
(***************************************************************************)
\* C22: the routes of a result built from the fallback route have no legs.
C22_FallbackLegsEmpty ==
    (PlanSucceeded /\ fallback_calls > 0) =>
        \A i \in 1..Len(plan_result.routes) : plan_result.routes[i].legs = <<>>

\* C24: with the dataset loaded, a plan_route that returns never returns
\* 'Routing failed', and its result has at least one analyzed route and a
\* recommended route.
C24_NeverRoutingFailed ==
    (file_state = "valid" /\ pc = "done") =>
        /\ plan_result.error # "Routing failed"
        /\ plan_result.routes # <<>>
        /\ plan_result.recommended_route # <<>>

\* C25: with a dataset file that exists and cannot be parsed, plan_route
\* returns the same 'Camera data not available' error as without the file.
C25_UnreadableIsDataUnavailable ==
    (file_state = "corrupt" /\ pc \in {"done", "raised"}) =>
        /\ pc = "done"
        /\ plan_result = DataUnavailable

\* C28: the routes of a successful result are the backend's routes, each
\* exactly once: as many as the backend returned, the route_index values
\* are exactly 0..n-1, and the route with route_index k carries the
\* geometry, legs, distance and duration of the backend's k-th route.
C28_RoutesArePermutation ==
    PlanSucceeded =>
        LET rs == plan_result.routes
            n  == Len(osrm_response.routes)
        IN  /\ Len(rs) = n
            /\ {rs[i].route_index : i \in 1..Len(rs)} = 0..(n - 1)
            /\ \A i, j \in 1..Len(rs) : rs[i].route_index = rs[j].route_index => i = j
            /\ \A i \in 1..Len(rs) :
                  rs[i].route_index \in 0..(n - 1) =>
                      LET route == osrm_response.routes[rs[i].route_index + 1]
                      IN  /\ rs[i].geometry = route.geometry
                          /\ rs[i].legs = route.legs
                          /\ 2 * Abs(10 * rs[i].distance_km - route.distance) <= 10
                          /\ 2 * Abs(6 * rs[i].duration_min - route.duration) <= 6

\* Two routes with the same score, and two routes the sort has exchanged.
C28_Witness ==
    /\ PlanSucceeded
    /\ Len(plan_result.routes) = 2
    /\ plan_result.routes[1].safety.score = plan_result.routes[2].safety.score
    /\ plan_result.routes[1].route_index = 0
    /\ plan_result.routes[2].route_index = 1

\* C29: in a successful result with at least one route, the route at
\* position 0 has is_recommended true and no other route has.
C29_ExactlyFirstIsRecommended ==
    (PlanSucceeded /\ plan_result.routes # <<>>) =>
        /\ plan_result.routes[1].is_recommended
        /\ \A i \in 2..Len(plan_result.routes) : ~plan_result.routes[i].is_recommended

\* The recommended route is the backend's second; its first is in second
\* place and not recommended.
C29_Witness ==
    /\ PlanSucceeded
    /\ Len(plan_result.routes) = 2
    /\ plan_result.routes[1].route_index = 1
    /\ plan_result.routes[1].is_recommended
    /\ plan_result.routes[2].route_index = 0
    /\ ~plan_result.routes[2].is_recommended

(***************************************************************************)
(* Properties of an analyzed route (SpecAnalyze)                           *)
(***************************************************************************)
Analyzed == an_out # NotAnalyzed

HazardousFound == {k \in 1..Len(an_nearby) : an_nearby[k].safety_level = "hazardous"}

\* C23: hazardous_locations holds hazardous cameras of the route only, each
\* once, at most 5, in ascending order of distance, and every hazardous
\* camera left out is at least as far from the route as every one listed.
C23_TopHazardsNearestFirst ==
    Analyzed =>
        LET hz == an_out.hazardous_locations
            listed == {hz[i].id : i \in 1..Len(hz)}
        IN  /\ Len(hz) <= 5
            /\ \A i \in 1..Len(hz) :
                  /\ hz[i].safety_level = "hazardous"
                  /\ hz[i].id \in HazardousFound
                  /\ hz[i] = an_nearby[hz[i].id]
            /\ \A i, j \in 1..Len(hz) : hz[i].id = hz[j].id => i = j
            /\ \A i \in 1..(Len(hz) - 1) : hz[i].distance_m <= hz[i + 1].distance_m
            /\ \A k \in HazardousFound \ listed :
                  \A i \in 1..Len(hz) : hz[i].distance_m <= an_nearby[k].distance_m
            /\ HazardousFound \ listed # {} => Len(hz) = 5

\* Six hazardous cameras, the nearest ones late in the dataset: one of the
\* far ones is left out.
C23_Witness ==
    /\ Analyzed
    /\ Cardinality(HazardousFound) = 6
    /\ an_nearby[1].distance_m = 300
    /\ an_nearby[6].distance_m = 100
    /\ Len(an_out.hazardous_locations) = 5
    /\ an_out.hazardous_locations[1].id = 6

\* C30: cameras_monitored is safety.total_cameras, hazardous_locations has
\* min(5, safety.hazard_count) elements, and it is non-empty exactly when
\* the rating is 'hazardous'.
C30_CountsAgree ==
    Analyzed =>
        /\ an_out.cameras_monitored = an_out.safety.total_cameras
        /\ an_out.cameras_monitored = Len(an_nearby)
        /\ Len(an_out.hazardous_locations)
               = (IF an_out.safety.hazard_count < 5 THEN an_out.safety.hazard_count ELSE 5)
        /\ an_out.hazardous_locations # <<>> <=> an_out.safety.rating = "hazardous"

\* Six cameras, all hazardous: five are listed.
C30_Witness ==
    /\ Analyzed
    /\ an_out.safety.hazard_count = 6
    /\ an_out.cameras_monitored = 6
    /\ Len(an_out.hazardous_locations) = 5
    /\ an_out.safety.rating = "hazardous"

(***************************************************************************)
(* Properties of get_safety_level (SpecLevel)                              *)
(***************************************************************************)
\* C27: for the labels 'snow on road', 'icy road surface' and 'slushy road'
\* the level is 'hazardous' when the top confidence is at least
\* min_hazard_confidence and 'unknown' below it; 'hazardous' is never
\* returned with a confidence below the threshold; and 'clear road in
\* winter with snow on sides' is 'safe'.
C27_SnowIceSlushAreHazardous ==
    (sl_out # NoLevel /\ sl_result # <<>>) =>
        LET label == sl_result[1].label
            score == sl_result[1].score
        IN  /\ label \in {SnowOnRoad, IcyRoadSurface, SlushyRoad} =>
                  sl_out.level = (IF score >= sl_threshold THEN "hazardous" ELSE "unknown")
            /\ sl_out.level = "hazardous" => score >= sl_threshold
            /\ label = ClearRoadInWinter => sl_out.level = "safe"

(***************************************************************************)
(* Properties of process_cameras_parallel with resume (SpecResume)         *)
(***************************************************************************)
ResumeRunning == rs_pc \in {"start", "pool", "done"}

\* C26: a camera stored with status 'success' (and a camera that is not
\* listed) is never processed; when the run has ended every listed camera
\* without a stored 'success' record has been processed, once; the file
\* then holds, unchanged, the stored record of every camera that was not
\* processed; and if no listed camera needed processing the file has not
\* been written.
C26_ResumeSkipsSuccess ==
    ResumeRunning =>
        /\ \A id \in ResumeIds :
              (rs_stored[id].status = "success" \/ id \notin rs_listed)
                  => rs_processed[id] = 0
        /\ rs_pc = "done" =>
              /\ \A id \in rs_listed :
                    rs_stored[id].status # "success" => rs_processed[id] = 1
              /\ \A id \in ResumeIds :
                    rs_processed[id] = 0 => rs_file[id] = rs_stored[id]
              /\ \A id \in ResumeIds :
                    rs_processed[id] = 1 => rs_file[id].run = 1
              /\ (\A id \in rs_listed : rs_stored[id].status = "success")
                    => rs_writes = 0 /\ rs_file = rs_stored

\* Both cameras are listed; the one stored as 'success' is skipped and kept,
\* the one stored as failed is processed again and replaced.
C26_Witness ==
    /\ rs_pc = "done"
    /\ rs_listed = {1, 2}
    /\ rs_stored[1].status = "success"
    /\ rs_stored[2].status = "download_failed"
    /\ rs_processed[1] = 0
    /\ rs_processed[2] = 1
    /\ rs_file[1] = rs_stored[1]
    /\ rs_file[2] = [status |-> "success", run |-> 1]
    /\ rs_writes = 1

====
